---- MODULE Spec2Model ----
(***************************************************************************)
(* Model of the Hysteria2 bootstrap scripts src/app.py (fixed binary name) *)
(* and src/混淆bot.py (random binary name).  One run of a script is the     *)
(* pipeline load_dotenv -> download_hysteria2 -> generate_self_signed_cert *)
(* -> generate_config -> sleep -> run_hysteria2; runs follow each other in *)
(* the same working directory, whose files persist between runs.           *)
(*                                                                         *)
(* A text is a sequence of tokens: single characters, or one token for a   *)
(* literal piece of a template, a variable name or a file name.            *)
(*                                                                         *)
(* Not modelled: ARCH, which only selects the download URL, and the modes  *)
(* of cert.crt and cert.key.  The number of runs is not bounded: the state *)
(* space is finite because the inputs are drawn from finite sets.          *)
(***************************************************************************)
EXTENDS Integers, Sequences, FiniteSets, TLC

VARIABLES
  variant,     \* "app" (src/app.py) or "bot" (src/混淆bot.py)
  pc,          \* position of the current run in main()
  exitCode,    \* exit status of the run once pc = "exited"
  exitStep,    \* the function in which the run exited
  exitMsg,     \* the error message printed before the exit
  ran,         \* the functions of main() this run has entered
  panelEnv,    \* the process environment each run starts with
  dotenv,      \* the .env file: [exists, lines]
  environ,     \* os.environ of the current run
  files,       \* the binaries of the working directory: name -> state
  record,      \* the .bin_name file: [exists, text]
  cert,        \* cert.crt: [exists, cn]
  key,         \* cert.key: [exists]
  config,      \* config.yaml: [exists, listen, cert, key, password, url]
  startFiles,  \* the files that existed when the current run started
  written,     \* the files the current run has written or replaced
  HY2_BINARY,  \* the module-level path of the binary
  randomName,  \* random_name of download_hysteria2 (bot)
  probed,      \* get_public_ip: the outcome of every endpoint contacted so
               \* far, until run_hysteria2 goes on to print and launch
  publicIp,    \* the value get_public_ip returned
  printed,     \* the connection string run_hysteria2 printed
  launched     \* the path handed to subprocess.run, or NotLaunched

vars == <<variant, pc, exitCode, exitStep, exitMsg, ran, panelEnv, dotenv, environ,
          files, record, cert, key, config, startFiles, written, HY2_BINARY,
          randomName, probed, publicIp, printed, launched>>

----------------------------------------------------------------------------
\* Text helpers: str.strip, str.split("=", 1), int(), str(int)

Whitespace == {" ", "\n", "\t"}

Digits == {"0", "1", "2", "3", "4", "5", "6", "7", "8", "9"}

RECURSIVE LStrip(_)
LStrip(s) ==
  IF s # <<>> /\ Head(s) \in Whitespace THEN LStrip(Tail(s)) ELSE s

RECURSIVE RStrip(_)
RStrip(s) ==
  IF s # <<>> /\ s[Len(s)] \in Whitespace
  THEN RStrip(SubSeq(s, 1, Len(s) - 1))
  ELSE s

\* str.strip()
Strip(s) == RStrip(LStrip(s))

\* index of the first "=" of a line, 0 when there is none
FirstEq(s) ==
  IF \E i \in 1..Len(s) : s[i] = "="
  THEN CHOOSE i \in 1..Len(s) : s[i] = "=" /\ \A j \in 1..(i - 1) : s[j] # "="
  ELSE 0

DigitVal(c) ==
  CASE c = "0" -> 0 [] c = "1" -> 1 [] c = "2" -> 2 [] c = "3" -> 3
    [] c = "4" -> 4 [] c = "5" -> 5 [] c = "6" -> 6 [] c = "7" -> 7
    [] c = "8" -> 8 [] c = "9" -> 9

DigitChar(d) ==
  CASE d = 0 -> "0" [] d = 1 -> "1" [] d = 2 -> "2" [] d = 3 -> "3"
    [] d = 4 -> "4" [] d = 5 -> "5" [] d = 6 -> "6" [] d = 7 -> "7"
    [] d = 8 -> "8" [] d = 9 -> "9"

\* the digits of an int() literal: digits, single underscores between them
ValidDigits(s) ==
  /\ s # <<>>
  /\ \A i \in 1..Len(s) : s[i] \in Digits \cup {"_"}
  /\ s[1] \in Digits
  /\ s[Len(s)] \in Digits
  /\ \A i \in 1..(Len(s) - 1) : ~(s[i] = "_" /\ s[i + 1] = "_")

RECURSIVE DigitsValue(_, _)
DigitsValue(s, acc) ==
  IF s = <<>> THEN acc
  ELSE IF Head(s) = "_" THEN DigitsValue(Tail(s), acc)
  ELSE DigitsValue(Tail(s), 10 * acc + DigitVal(Head(s)))

\* PyInt with a seeded fault: a text that is no number falls back to the
\* default port instead of raising
PyIntWithFallback(text) ==
  LET s == Strip(text)
      signed == s # <<>> /\ Head(s) \in {"+", "-"}
      body == IF signed THEN Tail(s) ELSE s
      magnitude == DigitsValue(body, 0)
  IN IF ValidDigits(body)
     THEN [ok |-> TRUE,
           val |-> IF signed /\ Head(s) = "-" THEN 0 - magnitude ELSE magnitude]
     ELSE [ok |-> TRUE, val |-> 7102]

\* int(text): ok = FALSE stands for ValueError
PyInt(text) ==
  LET s == Strip(text)
      signed == s # <<>> /\ Head(s) \in {"+", "-"}
      body == IF signed THEN Tail(s) ELSE s
      magnitude == DigitsValue(body, 0)
  IN IF ValidDigits(body)
     THEN [ok |-> TRUE,
           val |-> IF signed /\ Head(s) = "-" THEN 0 - magnitude ELSE magnitude]
     ELSE [ok |-> FALSE, val |-> 0]

RECURSIVE Decimal(_)
Decimal(n) ==
  IF n < 10 THEN <<DigitChar(n)>>
  ELSE Decimal(n \div 10) \o <<DigitChar(n % 10)>>

\* str(n) of an int, as the f-string renders it
PyStr(n) == IF n < 0 THEN <<"-">> \o Decimal(0 - n) ELSE Decimal(n)

----------------------------------------------------------------------------
\* The environment

K_PORT == <<"HY2_PORT">>
K_PASSWORD == <<"HY2_PASSWORD">>
K_MASQUERADE == <<"MASQUERADE_URL">>
K_DOMAIN == <<"FAKE_DOMAIN">>
K_NAME == <<"HY2_NODE_NAME">>

DefaultPort == <<"7", "1", "0", "2">>
DefaultMasquerade == <<"https://www.bing.com">>
DefaultDomain == <<"bing.com">>
DefaultNodeName == <<"Hysteria2 Node">>
\* the default "[not set]" marker of run_hysteria2 (non-ASCII in the source)
PasswordNotSet == <<"[password not set]">>
\* os.getenv(key) of a key that is not set
PyNone == <<"<None>">>

\* os.getenv(key, default)
Getenv(env, k, default) == IF k \in DOMAIN env THEN env[k] ELSE default

\* os.environ[key] = value
Setenv(env, k, v) ==
  [x \in (DOMAIN env) \cup {k} |-> IF x = k THEN v ELSE env[x]]

\* the loop of load_dotenv over the lines of .env: a line without "=" (the
\* unpacking fails) or with an empty key (os.environ refuses it) raises, the
\* except clause ends the load and the lines before it stay applied
RECURSIVE LoadLines(_, _)
LoadLines(env, lines) ==
  IF lines = <<>> THEN env
  ELSE LET line == Strip(Head(lines))
           eq == FirstEq(line)
           k == Strip(SubSeq(line, 1, eq - 1))
           v == Strip(SubSeq(line, eq + 1, Len(line)))
       IN IF line = <<>> \/ Head(line) = "#"
          THEN LoadLines(env, Tail(lines))
          ELSE IF eq = 0 \/ k = <<>>
          THEN env
          ELSE LoadLines(Setenv(env, k, v), Tail(lines))

\* load_dotenv()
LoadDotenvResult(env, file) ==
  IF file.exists THEN LoadLines(env, file.lines) ELSE env

----------------------------------------------------------------------------
\* The working directory

Variants == {"app", "bot"}

WorkDir == "."
TempBinary == "temp-binary"
\* the names random.choices can draw (16 characters each in the source)
RandomNames == {"r1", "r2"}
FileNames == {"hysteria", TempBinary} \cup RandomNames
CERT_FILE == "./cert.crt"
KEY_FILE == "./cert.key"
NotLaunched == "<not launched>"

\* The state of a binary is "absent", "partial" (the download broke off),
\* "noexec" (complete, mode not yet 0o755) or "ok" (complete and executable).

\* WORK_DIR / recorded_name: joining the empty name gives WORK_DIR itself
PathJoin(recorded) == IF recorded = <<>> THEN WorkDir ELSE recorded[1]

\* Path.exists()
Exists(fs, p) == p = WorkDir \/ (p \in FileNames /\ fs[p] # "absent")

\* os.access(p, os.X_OK): a directory that can be searched passes
AccessX(fs, p) == p = WorkDir \/ (p \in FileNames /\ fs[p] = "ok")

\* the test of download_hysteria2 (bot) that skips the download
RecordedBinaryUsable(fs, rec) ==
  /\ rec.exists
  /\ Exists(fs, PathJoin(Strip(rec.text)))
  /\ AccessX(fs, PathJoin(Strip(rec.text)))

\* BinaryPresent with a seeded fault: the download is skipped only for a
\* binary that is complete and executable
BinaryPresentAndExecutable(fs) == fs["hysteria"] = "ok"

\* the test of download_hysteria2 (app) that skips the download
BinaryPresent(fs) == Exists(fs, "hysteria")

\* the test of generate_self_signed_cert that skips the generation
CertPresent(c, k) == c.exists /\ k.exists

NoCert == [exists |-> FALSE, cn |-> <<>>]
NoKey == [exists |-> FALSE]
NoConfig == [exists |-> FALSE, listen |-> <<>>, cert |-> "", key |-> "",
             password |-> <<>>, url |-> <<>>]

\* the files of the working directory that exist, by name
Existing(fs, rec, c, k, cfg) ==
  {f \in FileNames : fs[f] # "absent"}
    \cup (IF rec.exists THEN {".bin_name"} ELSE {})
    \cup (IF c.exists THEN {"cert.crt"} ELSE {})
    \cup (IF k.exists THEN {"cert.key"} ELSE {})
    \cup (IF cfg.exists THEN {"config.yaml"} ELSE {})

----------------------------------------------------------------------------
\* generate_config and run_hysteria2: the texts they render

\* PasswordMissing with a seeded fault: `if password is None`
PasswordMissingOnlyNone(env) == Getenv(env, K_PASSWORD, PyNone) = PyNone

\* `if not password`
PasswordMissing(env) ==
  Getenv(env, K_PASSWORD, PyNone) = PyNone \/ Getenv(env, K_PASSWORD, PyNone) = <<>>

\* the port text generate_config and run_hysteria2 read
PortText(env) == Getenv(env, K_PORT, DefaultPort)

\* ConfigContent with a seeded fault: the two tls paths are swapped
ConfigContentSwappedTls(port, password, url) ==
  [exists |-> TRUE, listen |-> PyStr(port), cert |-> KEY_FILE, key |-> CERT_FILE,
   password |-> password, url |-> url]

\* config_content, field by field
ConfigContent(port, password, url) ==
  [exists |-> TRUE, listen |-> PyStr(port), cert |-> CERT_FILE, key |-> KEY_FILE,
   password |-> password, url |-> url]

\* NodeName with a seeded fault: no default name
NodeNameNoDefault(env) == Strip(Getenv(env, K_NAME, <<>>))

\* hy2_node_name of run_hysteria2
NodeName(env) == Strip(Getenv(env, K_NAME, DefaultNodeName))

\* client_url of run_hysteria2
ClientUrl(password, ip, port, domain, name) ==
  LET base == <<"hysteria2://">> \o password \o <<"@">> \o ip \o <<":">>
                \o port \o <<"/?sni=">> \o domain \o <<"&insecure=1">>
  IN IF name # <<>> THEN base \o <<"#">> \o name ELSE base

----------------------------------------------------------------------------
\* get_public_ip

IpSources == <<"https://api.ipify.org", "https://ifconfig.me",
               "https://icanhazip.com", "https://ipinfo.io/ip",
               "http://checkip.amazonaws.com">>

\* the placeholder returned when every source failed (non-ASCII in the source)
IpPlaceholder == <<"<your server IP>">>

\* what a source can do: raise (error, timeout, undecodable body) or answer
\* with a body, which may be empty, blank, or the address it sees
ProbeOutcomes(i) ==
  {[raised |-> TRUE, body |-> <<>>],
   [raised |-> FALSE, body |-> <<"\n">>],
   [raised |-> FALSE, body |-> <<"ip", DigitChar(i), "\n">>]}

\* ProbeSucceeded with a seeded fault: the body is tested before it is
\* stripped
ProbeSucceededUnstripped(o) == ~o.raised /\ o.body # <<>>

\* `ip = response.read().decode('utf-8').strip()` and `if ip`
ProbeAnswer(o) == Strip(o.body)
ProbeSucceeded(o) == ~o.raised /\ ProbeAnswer(o) # <<>>

----------------------------------------------------------------------------
\* The inputs: the panel's environment and the .env file

Unset == <<"<unset>">>

PasswordInputs == {Unset, <<>>, <<"p">>}
PortInputs == {Unset, <<"8">>, <<"+", "8">>, <<"x">>}
NameInputs == {Unset, <<" ">>, <<"n">>}
\* MASQUERADE_URL and FAKE_DOMAIN, each set in one choice and not in the other
DecoyInputs == {[masq |-> <<"m">>, dom |-> Unset], [masq |-> Unset, dom |-> <<"d">>]}

\* the environment in which each key is set to its chosen value, or not set
EnvOf(pw, port, name, masq, dom) ==
  LET choice == [k \in {K_PASSWORD, K_PORT, K_NAME, K_MASQUERADE, K_DOMAIN} |->
                   IF k = K_PASSWORD THEN pw
                   ELSE IF k = K_PORT THEN port
                   ELSE IF k = K_NAME THEN name
                   ELSE IF k = K_MASQUERADE THEN masq
                   ELSE dom]
  IN [k \in {x \in DOMAIN choice : choice[x] # Unset} |-> choice[k]]

PanelEnvs ==
  {EnvOf(pw, port, name, d.masq, d.dom) :
     pw \in PasswordInputs, port \in PortInputs, name \in NameInputs,
     d \in DecoyInputs}

NoDotenv == [exists |-> FALSE, lines |-> <<>>]

DotenvFiles ==
  {NoDotenv,
   [exists |-> TRUE,
    lines |-> << <<"#", "c">>,
                 <<>>,
                 <<" ", "HY2_PORT", " ", "=", " ", "0", "9", " ">> >>],
   [exists |-> TRUE,
    lines |-> << <<"HY2_PASSWORD", "=", "q">>,
                 <<"HY2_PORT", "=", "0", "x">> >>],
   [exists |-> TRUE,
    lines |-> << <<"HY2_NODE_NAME", "=">>,
                 <<"broken">>,
                 <<"HY2_PASSWORD", "=", "q">> >>]}

NoRecord == [exists |-> FALSE, text |-> <<>>]

\* .bin_name as a run may find it: missing, or naming a binary that is gone
InitialRecords(v) ==
  IF v = "bot" THEN {NoRecord, [exists |-> TRUE, text |-> <<"r1", "\n">>]}
  ELSE {NoRecord}

\* HY2_BINARY when the module is loaded
InitialBinary(v) == IF v = "app" THEN "hysteria" ELSE "None"

Init ==
  /\ variant \in Variants
  /\ pc = "load_dotenv"
  /\ exitCode = -1
  /\ exitStep = "none"
  /\ exitMsg = "none"
  /\ ran = {}
  /\ panelEnv \in PanelEnvs
  /\ dotenv \in DotenvFiles
  /\ environ = panelEnv
  /\ files = [f \in FileNames |-> "absent"]
  /\ record \in InitialRecords(variant)
  /\ cert = NoCert
  /\ key = NoKey
  /\ config = NoConfig
  /\ startFiles = Existing(files, record, cert, key, config)
  /\ written = {}
  /\ HY2_BINARY = InitialBinary(variant)
  /\ randomName = "None"
  /\ probed = <<>>
  /\ publicIp = <<>>
  /\ printed = <<>>
  /\ launched = NotLaunched

----------------------------------------------------------------------------
\* The steps of main()

\* print(msg) and sys.exit(1) in function `step`
Exit(step, msg) ==
  /\ pc' = "exited"
  /\ exitCode' = 1
  /\ exitStep' = step
  /\ exitMsg' = msg

Continue(next) ==
  /\ pc' = next
  /\ UNCHANGED <<exitCode, exitStep, exitMsg>>

LoadDotenv ==
  /\ pc = "load_dotenv"
  /\ environ' = LoadDotenvResult(environ, dotenv)
  /\ ran' = ran \cup {"load_dotenv"}
  /\ Continue("download")
  /\ UNCHANGED <<variant, panelEnv, dotenv, files, record, cert, key, config,
                 startFiles, written, HY2_BINARY, randomName, probed,
                 publicIp, printed, launched>>

\* download_hysteria2 of app.py: urlretrieve writes straight to HY2_BINARY
AppDownload ==
  /\ pc = "download"
  /\ variant = "app"
  /\ ran' = ran \cup {"download_hysteria2"}
  /\ \/ /\ BinaryPresent(files)
        /\ UNCHANGED <<files, written>>
        /\ Continue("cert")
     \/ /\ ~BinaryPresent(files)
        /\ \/ \* the request fails before the file is opened
              /\ UNCHANGED <<files, written>>
              /\ Exit("download_hysteria2", "download failed")
           \/ \* the transfer breaks off
              /\ files' = [files EXCEPT !["hysteria"] = "partial"]
              /\ written' = written \cup {"hysteria"}
              /\ Exit("download_hysteria2", "download failed")
           \/ \* chmod fails
              /\ files' = [files EXCEPT !["hysteria"] = "noexec"]
              /\ written' = written \cup {"hysteria"}
              /\ Exit("download_hysteria2", "download failed")
           \/ /\ files' = [files EXCEPT !["hysteria"] = "ok"]
              /\ written' = written \cup {"hysteria"}
              /\ Continue("cert")
  /\ UNCHANGED <<variant, panelEnv, dotenv, environ, record, cert, key, config,
                 startFiles, HY2_BINARY, randomName, probed, publicIp, printed,
                 launched>>

\* download_hysteria2 of the bot, up to the choice of random_name
BotCheckRecord ==
  /\ pc = "download"
  /\ variant = "bot"
  /\ ran' = ran \cup {"download_hysteria2"}
  /\ \/ /\ RecordedBinaryUsable(files, record)
        /\ HY2_BINARY' = PathJoin(Strip(record.text))
        /\ UNCHANGED randomName
        /\ Continue("cert")
     \/ /\ ~RecordedBinaryUsable(files, record)
        /\ randomName' \in RandomNames
        /\ UNCHANGED HY2_BINARY
        /\ Continue("fetch")
  /\ UNCHANGED <<variant, panelEnv, dotenv, environ, files, record, cert, key,
                 config, startFiles, written, probed, publicIp, printed,
                 launched>>

\* urlretrieve(url, temp_binary)
BotFetch ==
  /\ pc = "fetch"
  /\ \/ \* the request fails before the file is opened
        /\ UNCHANGED <<files, written>>
        /\ Continue("cleanup")
     \/ \* the transfer breaks off
        /\ files' = [files EXCEPT ![TempBinary] = "partial"]
        /\ written' = written \cup {TempBinary}
        /\ Continue("cleanup")
     \/ /\ files' = [files EXCEPT ![TempBinary] = "noexec"]
        /\ written' = written \cup {TempBinary}
        /\ Continue("install")
  /\ UNCHANGED <<variant, ran, panelEnv, dotenv, environ, record, cert, key,
                 config, startFiles, HY2_BINARY, randomName, probed, publicIp,
                 printed, launched>>

\* temp_binary.chmod, the rename to the random name, the write of .bin_name
BotInstall ==
  /\ pc = "install"
  /\ \/ \* chmod fails
        /\ UNCHANGED <<files, HY2_BINARY, record, written>>
        /\ Continue("cleanup")
     \/ \* rename fails, HY2_BINARY already assigned
        /\ files' = [files EXCEPT ![TempBinary] = "ok"]
        /\ HY2_BINARY' = randomName
        /\ UNCHANGED <<record, written>>
        /\ Continue("cleanup")
     \/ \* write_text cannot open .bin_name
        /\ files' = [files EXCEPT ![TempBinary] = "absent", ![randomName] = "ok"]
        /\ HY2_BINARY' = randomName
        /\ UNCHANGED record
        /\ written' = written \cup {randomName}
        /\ Continue("cleanup")
     \/ \* write_text opens .bin_name, which empties it, and fails to write
        /\ files' = [files EXCEPT ![TempBinary] = "absent", ![randomName] = "ok"]
        /\ HY2_BINARY' = randomName
        /\ record' = [exists |-> TRUE, text |-> <<>>]
        /\ written' = written \cup {randomName, ".bin_name"}
        /\ Continue("cleanup")
     \/ /\ files' = [files EXCEPT ![TempBinary] = "absent", ![randomName] = "ok"]
        /\ HY2_BINARY' = randomName
        /\ record' = [exists |-> TRUE, text |-> <<randomName>>]
        /\ written' = written \cup {randomName, ".bin_name"}
        /\ Continue("cert")
  /\ UNCHANGED <<variant, ran, panelEnv, dotenv, environ, cert, key, config,
                 startFiles, randomName, probed, publicIp, printed, launched>>

\* BotCleanup with a seeded fault: temp-binary is left in place
BotCleanupKeepsTemp ==
  /\ pc = "cleanup"
  /\ Exit("download_hysteria2", "download failed")
  /\ UNCHANGED <<variant, ran, panelEnv, dotenv, environ, files, record, cert,
                 key, config, startFiles, written, HY2_BINARY, randomName,
                 probed, publicIp, printed, launched>>

\* the except clause of download_hysteria2 (bot): temp-binary is unlinked if
\* it exists, then sys.exit(1)
BotCleanup ==
  /\ pc = "cleanup"
  /\ files' = [files EXCEPT ![TempBinary] = "absent"]
  /\ Exit("download_hysteria2", "download failed")
  /\ UNCHANGED <<variant, ran, panelEnv, dotenv, environ, record, cert, key,
                 config, startFiles, written, HY2_BINARY, randomName, probed,
                 publicIp, printed, launched>>

\* generate_self_signed_cert: openssl writes the key, then the certificate
GenerateCert ==
  /\ pc = "cert"
  /\ ran' = ran \cup {"generate_self_signed_cert"}
  /\ LET newCert == [exists |-> TRUE,
                     cn |-> Getenv(environ, K_DOMAIN, DefaultDomain)]
         newKey == [exists |-> TRUE]
     IN \/ /\ CertPresent(cert, key)
           /\ UNCHANGED <<cert, key, written>>
           /\ Continue("config")
        \/ /\ ~CertPresent(cert, key)
           /\ \/ \* openssl is missing or fails before it writes
                 /\ UNCHANGED <<cert, key, written>>
                 /\ Exit("generate_self_signed_cert", "certificate generation failed")
              \/ \* openssl fails after the key is written
                 /\ key' = newKey
                 /\ UNCHANGED cert
                 /\ written' = written \cup {"cert.key"}
                 /\ Exit("generate_self_signed_cert", "certificate generation failed")
              \/ \* a chmod fails
                 /\ key' = newKey
                 /\ cert' = newCert
                 /\ written' = written \cup {"cert.key", "cert.crt"}
                 /\ Exit("generate_self_signed_cert", "certificate generation failed")
              \/ /\ key' = newKey
                 /\ cert' = newCert
                 /\ written' = written \cup {"cert.key", "cert.crt"}
                 /\ Continue("config")
  /\ UNCHANGED <<variant, panelEnv, dotenv, environ, files, record, config,
                 startFiles, HY2_BINARY, randomName, probed, publicIp, printed,
                 launched>>

GenerateConfig ==
  /\ pc = "config"
  /\ ran' = ran \cup {"generate_config"}
  /\ LET port == PyInt(PortText(environ))
         password == Getenv(environ, K_PASSWORD, PyNone)
         masquerade_url == Getenv(environ, K_MASQUERADE, DefaultMasquerade)
     IN \/ /\ PasswordMissing(environ)
           /\ UNCHANGED <<config, written>>
           /\ Exit("generate_config", "HY2_PASSWORD is not set")
        \/ /\ ~PasswordMissing(environ)
           /\ ~port.ok
           /\ UNCHANGED <<config, written>>
           /\ Exit("generate_config", "HY2_PORT must be a number")
        \/ /\ ~PasswordMissing(environ)
           /\ port.ok
           /\ config' = ConfigContent(port.val, password, masquerade_url)
           /\ written' = written \cup {"config.yaml"}
           /\ Continue("sleep")
  /\ UNCHANGED <<variant, panelEnv, dotenv, environ, files, record, cert, key,
                 startFiles, HY2_BINARY, randomName, probed, publicIp, printed,
                 launched>>

\* time.sleep(2) of main()
Sleep ==
  /\ pc = "sleep"
  /\ Continue("probe")
  /\ UNCHANGED <<variant, ran, panelEnv, dotenv, environ, files, record, cert,
                 key, config, startFiles, written, HY2_BINARY, randomName,
                 probed, publicIp, printed, launched>>

\* one turn of the loop of get_public_ip, and its return
ProbeEndpoint ==
  /\ pc = "probe"
  /\ Len(probed) < Len(IpSources)
  /\ ran' = ran \cup {"run_hysteria2"}
  /\ \E o \in ProbeOutcomes(Len(probed) + 1) :
       /\ probed' = Append(probed, o)
       /\ \/ /\ ProbeSucceeded(o)
             /\ publicIp' = ProbeAnswer(o)
             /\ Continue("print")
          \/ /\ ~ProbeSucceeded(o)
             /\ Len(probed') < Len(IpSources)
             /\ UNCHANGED publicIp
             /\ Continue("probe")
          \/ /\ ~ProbeSucceeded(o)
             /\ Len(probed') = Len(IpSources)
             /\ publicIp' = IpPlaceholder
             /\ Continue("print")
  /\ UNCHANGED <<variant, panelEnv, dotenv, environ, files, record, cert, key,
                 config, startFiles, written, HY2_BINARY, randomName, printed,
                 launched>>

\* run_hysteria2 after get_public_ip: the link is printed, then the binary is
\* handed to subprocess.run; a path that cannot be executed makes it raise,
\* nothing catches that and the interpreter exits with status 1
RunHysteria2 ==
  /\ pc = "print"
  /\ printed' = ClientUrl(Getenv(environ, K_PASSWORD, PasswordNotSet), publicIp,
                          PortText(environ),
                          Getenv(environ, K_DOMAIN, DefaultDomain),
                          NodeName(environ))
  /\ launched' = HY2_BINARY
  /\ probed' = <<>>
  /\ \/ /\ HY2_BINARY \in FileNames
        /\ files[HY2_BINARY] = "ok"
        /\ Continue("running")
     \/ /\ ~(HY2_BINARY \in FileNames /\ files[HY2_BINARY] = "ok")
        /\ Exit("run_hysteria2", "traceback")
  /\ UNCHANGED <<variant, ran, panelEnv, dotenv, environ, files, record, cert,
                 key, config, startFiles, written, HY2_BINARY, randomName,
                 publicIp>>

\* the panel starts the script again in the same working directory, after the
\* run exited or the server it launched ended
Restart ==
  /\ pc \in {"exited", "running"}
  /\ pc' = "load_dotenv"
  /\ exitCode' = -1
  /\ exitStep' = "none"
  /\ exitMsg' = "none"
  /\ ran' = {}
  /\ environ' = panelEnv
  /\ startFiles' = Existing(files, record, cert, key, config)
  /\ written' = {}
  /\ HY2_BINARY' = InitialBinary(variant)
  /\ randomName' = "None"
  /\ probed' = <<>>
  /\ publicIp' = <<>>
  /\ printed' = <<>>
  /\ launched' = NotLaunched
  /\ UNCHANGED <<variant, panelEnv, dotenv, files, record, cert, key, config>>

Next ==
  \/ LoadDotenv
  \/ AppDownload
  \/ BotCheckRecord
  \/ BotFetch
  \/ BotInstall
  \/ BotCleanup
  \/ GenerateCert
  \/ GenerateConfig
  \/ Sleep
  \/ ProbeEndpoint
  \/ RunHysteria2
  \/ Restart

Spec == Init /\ [][Next]_vars

----------------------------------------------------------------------------
\* Properties

\* the environment has been loaded: load_dotenv has returned in this run
Loaded == "load_dotenv" \in ran

\* the steps of main() after generate_config
AfterConfig == {"sleep", "probe", "print", "running"}

\* C1: in both variants, a run whose HY2_PASSWORD is unset or empty once the
\* environment and .env are loaded never writes the config, never reaches
\* run_hysteria2 and never launches the server; every exit of such a run is
\* an exit with status 1, and once it has entered generate_config it has
\* exited there, with the message that the password is not set.
C1_MissingPasswordStopsRun ==
  (Loaded /\ (K_PASSWORD \notin DOMAIN environ \/ environ[K_PASSWORD] = <<>>)) =>
    /\ launched = NotLaunched
    /\ printed = <<>>
    /\ pc \notin AfterConfig
    /\ "run_hysteria2" \notin ran
    /\ "config.yaml" \notin written
    /\ (pc = "exited" => exitCode = 1)
    /\ ("generate_config" \in ran =>
          /\ pc = "exited"
          /\ exitStep = "generate_config"
          /\ exitMsg = "HY2_PASSWORD is not set")

\* C1 witness: a run with the password missing has exited in generate_config,
\* in a run where .env was read and did not supply it.
C1_Witness ==
  /\ pc = "exited"
  /\ exitStep = "generate_config"
  /\ dotenv.exists
  /\ K_PASSWORD \notin DOMAIN environ

\* C2 (as claimed): no file among the binary, cert.crt, cert.key and
\* config.yaml that existed when the run started is written by the run.
C2_Original ==
  written \cap startFiles
    \cap ({"hysteria", "cert.crt", "cert.key", "config.yaml"} \cup RandomNames) = {}

\* C2 (amended): an existing "hysteria" is never written (app.py); the bot
\* writes binaries only under temp-binary and the random name it has drawn;
\* cert.crt and cert.key are not written when both existed at the start, and
\* are both written by a run that passes generate_self_signed_cert when one
\* of them was missing; config.yaml is written by every run that passes
\* generate_config, whether it existed or not.
C2_ExistingFilesKept ==
  /\ "hysteria" \in startFiles => "hysteria" \notin written
  /\ variant = "app" => written \cap FileNames \subseteq {"hysteria"}
  /\ variant = "bot" => written \cap FileNames \subseteq {TempBinary, randomName}
  /\ {"cert.crt", "cert.key"} \subseteq startFiles =>
       written \cap {"cert.crt", "cert.key"} = {}
  /\ (~({"cert.crt", "cert.key"} \subseteq startFiles)
        /\ (pc \in {"config"} \cup AfterConfig \/ "generate_config" \in ran)) =>
       {"cert.crt", "cert.key"} \subseteq written
  /\ (pc \in AfterConfig \/ "run_hysteria2" \in ran) => "config.yaml" \in written

\* C2 witness: a run that found the binary, the certificate pair and the
\* config in place has launched the server, having rewritten the config only.
C2_Witness ==
  /\ pc = "running"
  /\ {"hysteria", "cert.crt", "cert.key", "config.yaml"} \subseteq startFiles
  /\ written = {"config.yaml"}

\* C3 (as claimed): when HY2_NODE_NAME is not configured, the printed
\* connection string ends at "insecure=1", with no "#" suffix.
C3_Original ==
  (printed # <<>> /\ K_NAME \notin DOMAIN environ) =>
    /\ printed[Len(printed)] = "&insecure=1"
    /\ \A i \in 1..Len(printed) : printed[i] # "#"

\* C3 (amended): the printed connection string is
\* hysteria2://password@ip:port/?sni=domain&insecure=1, followed by "#" and
\* the node name unless the node name is empty; the node name is
\* HY2_NODE_NAME stripped of surrounding whitespace, or "Hysteria2 Node" when
\* HY2_NODE_NAME is not set, so the string ends at "insecure=1" only when
\* HY2_NODE_NAME is set to an empty or blank value.
C3_ConnectionString ==
  printed # <<>> =>
    LET port == IF K_PORT \in DOMAIN environ THEN environ[K_PORT]
                ELSE <<"7", "1", "0", "2">>
        domain == IF K_DOMAIN \in DOMAIN environ THEN environ[K_DOMAIN]
                  ELSE <<"bing.com">>
        base == <<"hysteria2://">> \o environ[K_PASSWORD] \o <<"@">> \o publicIp
                  \o <<":">> \o port \o <<"/?sni=">> \o domain
                  \o <<"&insecure=1">>
        blank == K_NAME \in DOMAIN environ
                   /\ \A i \in 1..Len(environ[K_NAME]) :
                        environ[K_NAME][i] \in {" ", "\t", "\n"}
    IN /\ K_PASSWORD \in DOMAIN environ
       /\ SubSeq(printed, 1, Len(base)) = base
       /\ blank => printed = base
       /\ K_NAME \notin DOMAIN environ =>
            printed = base \o <<"#", "Hysteria2 Node">>
       /\ (K_NAME \in DOMAIN environ /\ ~blank) =>
            /\ Len(printed) > Len(base) + 1
            /\ printed[Len(base) + 1] = "#"
            /\ SubSeq(printed, Len(base) + 2, Len(printed)) = Strip(environ[K_NAME])

\* C3 witness: the link has been printed in a run without HY2_NODE_NAME.
C3_Witness ==
  /\ printed # <<>>
  /\ K_NAME \notin DOMAIN environ
  /\ launched # NotLaunched

\* what the .env file sets, when it is read on its own
EmptyEnv == [k \in {} |-> <<>>]
DotenvSets == LoadDotenvResult(EmptyEnv, dotenv)

ConfigKeys == {K_PORT, K_PASSWORD, K_MASQUERADE, K_DOMAIN, K_NAME}

\* C4: after load_dotenv every key resolves to the panel's value when the
\* panel sets it, else to the value of .env when .env sets it, else to the
\* default (here: stays unset).
C4_PanelOverDotenv ==
  Loaded =>
    \A k \in ConfigKeys :
      /\ k \in DOMAIN panelEnv => (k \in DOMAIN environ /\ environ[k] = panelEnv[k])
      /\ (k \notin DOMAIN panelEnv /\ k \in DOMAIN DotenvSets) =>
           (k \in DOMAIN environ /\ environ[k] = DotenvSets[k])
      /\ (k \notin DOMAIN panelEnv /\ k \notin DOMAIN DotenvSets) =>
           k \notin DOMAIN environ

\* a text that int() accepts as it stands in canonical form: digits only,
\* no sign, no leading zero
CanonicalDecimal(t) ==
  /\ t # <<>>
  /\ \A i \in 1..Len(t) : t[i] \in Digits
  /\ (Len(t) > 1 => t[1] # "0")

\* C5 (as claimed): the config written by generate_config holds the supplied
\* HY2_PORT text (default 7102) unmodified, the paths of cert.crt and
\* cert.key, the supplied password and the supplied masquerade url.
C5_Original ==
  "config.yaml" \in written =>
    /\ config.listen = (IF K_PORT \in DOMAIN environ THEN environ[K_PORT]
                        ELSE <<"7", "1", "0", "2">>)
    /\ config.cert = "./cert.crt"
    /\ config.key = "./cert.key"
    /\ config.password = environ[K_PASSWORD]
    /\ config.url = (IF K_MASQUERADE \in DOMAIN environ THEN environ[K_MASQUERADE]
                     ELSE <<"https://www.bing.com">>)

\* C5 (amended): the config written by generate_config holds the paths of
\* cert.crt and cert.key, the supplied password and the supplied masquerade
\* url (default https://www.bing.com) unmodified; its listen port is the
\* canonical decimal form of the integer that HY2_PORT (default 7102)
\* denotes, which is the supplied text only when that text is canonical.
C5_ConfigContent ==
  "config.yaml" \in written =>
    LET supplied == IF K_PORT \in DOMAIN environ THEN environ[K_PORT]
                    ELSE <<"7", "1", "0", "2">>
        digits == IF config.listen # <<>> /\ config.listen[1] = "-"
                  THEN Tail(config.listen) ELSE config.listen
    IN /\ config.exists
       /\ CanonicalDecimal(digits)
       /\ config.listen # <<"-", "0">>
       /\ PyInt(config.listen).val = PyInt(supplied).val
       /\ CanonicalDecimal(supplied) => config.listen = supplied
       /\ config.cert = "./cert.crt"
       /\ config.key = "./cert.key"
       /\ K_PASSWORD \in DOMAIN environ
       /\ config.password = environ[K_PASSWORD]
       /\ config.url = (IF K_MASQUERADE \in DOMAIN environ THEN environ[K_MASQUERADE]
                        ELSE <<"https://www.bing.com">>)

\* C5 witness: the config has been written in a run whose HY2_PORT is "+8".
C5_Witness ==
  /\ "config.yaml" \in written
  /\ K_PORT \in DOMAIN environ
  /\ environ[K_PORT] = <<"+", "8">>
  /\ config.listen = <<"8">>

\* the i-th source contacted answered with an address
C6_Answered(i) == ~probed[i].raised /\ Strip(probed[i].body) # <<>>

\* C6: get_public_ip contacts the sources in list order and returns at the
\* first one that answers with a body that is not empty once stripped, with
\* that answer; it returns the placeholder if and only if all five sources
\* failed; and a run that has entered run_hysteria2 ends only by handing the
\* binary to subprocess.run, also when every source failed.
C6_FirstSuccessWins ==
  /\ pc \in {"probe", "print"} =>
       /\ Len(probed) <= Len(IpSources)
       /\ \A i \in 1..(Len(probed) - 1) : ~C6_Answered(i)
       /\ \A i \in 1..Len(probed) : probed[i] \in ProbeOutcomes(i)
  /\ pc = "probe" =>
       /\ Len(probed) < Len(IpSources)
       /\ \A i \in 1..Len(probed) : ~C6_Answered(i)
  /\ pc = "print" =>
       /\ Len(probed) >= 1
       /\ C6_Answered(Len(probed)) =>
            publicIp = <<"ip", DigitChar(Len(probed))>>
       /\ ~C6_Answered(Len(probed)) =>
            (Len(probed) = Len(IpSources) /\ publicIp = IpPlaceholder)
       /\ publicIp = IpPlaceholder <=>
            (Len(probed) = Len(IpSources)
               /\ \A i \in 1..Len(probed) : ~C6_Answered(i))
  /\ ("run_hysteria2" \in ran /\ pc \notin {"probe", "print"}) =>
       /\ launched # NotLaunched
       /\ pc \in {"running", "exited"}
       /\ (pc = "exited" => exitStep = "run_hysteria2")

\* C6 witness: the server runs after all five sources failed.
C6_Witness ==
  /\ pc = "running"
  /\ publicIp = IpPlaceholder
  /\ launched # NotLaunched

\* a step in which the run exits in download_hysteria2 or in
\* generate_self_signed_cert
C7_FailingExit ==
  /\ pc # "exited"
  /\ pc' = "exited"
  /\ exitStep' \in {"download_hysteria2", "generate_self_signed_cert"}

\* what C7 says of such a step, rollback apart
C7_StopsPipeline ==
  /\ exitCode' = 1
  /\ exitMsg' \in {"download failed", "certificate generation failed"}
  /\ launched' = NotLaunched
  /\ printed' = <<>>
  /\ ran' \cap {"generate_config", "run_hysteria2"} = {}
  /\ "config.yaml" \notin written'
  /\ exitStep' = "download_hysteria2" =>
       /\ "generate_self_signed_cert" \notin ran'
       /\ written' \cap {"cert.crt", "cert.key"} = {}
  /\ exitStep' = "generate_self_signed_cert" => "download_hysteria2" \in ran'

\* C7 (as claimed): a failing download or certificate step exits with a
\* message and a non-zero status, no later step runs, and no file that
\* exists is removed.
C7_Original ==
  [][C7_FailingExit =>
       /\ C7_StopsPipeline
       /\ Existing(files, record, cert, key, config)
            \subseteq Existing(files', record', cert', key', config')]_vars

\* C7 (amended): a failing download or certificate step exits with a message
\* and status 1 and no later step runs; no file that exists is removed,
\* except that the bot's download_hysteria2 deletes its temp-binary before
\* it exits (app.py leaves a partial "hysteria" in place).
C7_FailureStopsRun ==
  [][C7_FailingExit =>
       /\ C7_StopsPipeline
       /\ Existing(files, record, cert, key, config) \ {TempBinary}
            \subseteq Existing(files', record', cert', key', config')
       /\ variant = "app" =>
            Existing(files, record, cert, key, config)
              \subseteq Existing(files', record', cert', key', config')
       /\ variant = "bot" =>
            TempBinary \notin Existing(files', record', cert', key', config')]_vars

\* C7 witness: the bot has exited in download_hysteria2 after it had written
\* temp-binary, which is gone.
C7_Witness ==
  /\ variant = "bot"
  /\ pc = "exited"
  /\ exitStep = "download_hysteria2"
  /\ TempBinary \in written
  /\ files[TempBinary] = "absent"

\* a text that int() refuses: once stripped and without one leading sign,
\* it is not a run of digits with single underscores between them
C8_NotNumeric(t) ==
  LET s == Strip(t)
      body == IF s # <<>> /\ s[1] \in {"+", "-"} THEN Tail(s) ELSE s
  IN \/ body = <<>>
     \/ \E i \in 1..Len(body) : body[i] \notin Digits \cup {"_"}
     \/ body[1] = "_"
     \/ body[Len(body)] = "_"
     \/ \E i \in 1..(Len(body) - 1) : body[i] = "_" /\ body[i + 1] = "_"

\* C8: in both variants, a run whose HY2_PORT is set to a text that is not a
\* number never writes the config and never launches the server; once it has
\* entered generate_config it has exited there with status 1, and with the
\* message that the port must be a number when the password is present.
C8_BadPortStopsRun ==
  (Loaded /\ K_PORT \in DOMAIN environ /\ C8_NotNumeric(environ[K_PORT])) =>
    /\ launched = NotLaunched
    /\ printed = <<>>
    /\ pc \notin AfterConfig
    /\ "run_hysteria2" \notin ran
    /\ "config.yaml" \notin written
    /\ (pc = "exited" => exitCode = 1)
    /\ ("generate_config" \in ran =>
          /\ pc = "exited"
          /\ exitStep = "generate_config"
          /\ ((K_PASSWORD \in DOMAIN environ /\ environ[K_PASSWORD] # <<>>) =>
                exitMsg = "HY2_PORT must be a number"))

\* C8 witness: a run with a password and a port that is not a number has
\* exited in generate_config.
C8_Witness ==
  /\ pc = "exited"
  /\ exitStep = "generate_config"
  /\ exitMsg = "HY2_PORT must be a number"
  /\ K_PASSWORD \in DOMAIN environ
  /\ environ[K_PORT] = <<"x">>

\* C9: whenever the bot hands a path to subprocess.run, it is a file under a
\* random name, downloaded completely and executable, and .bin_name holds
\* that name.
C9_LaunchesRecordedBinary ==
  (variant = "bot" /\ launched # NotLaunched) =>
    /\ launched \in RandomNames
    /\ files[launched] = "ok"
    /\ record.exists
    /\ Strip(record.text) = <<launched>>

\* C10: whenever app.py hands "hysteria" to subprocess.run, the file was
\* downloaded completely and made executable.
C10_LaunchesCompleteBinary ==
  (variant = "app" /\ launched # NotLaunched) =>
    /\ launched = "hysteria"
    /\ files["hysteria"] = "ok"

====
